---- MODULE Spec2Model ----
(***************************************************************************)
(* Model of v2-to-unified (src/src/main.rs): the batch loop of main, the   *)
(* conversion of one legacy (crud_v2) test file into the unified format,   *)
(* and the textual resolver that rewrites placeholder tokens into YAML     *)
(* anchors and aliases.                                                    *)
(*                                                                         *)
(* Text is a sequence of atoms.  Every string literal of the source is the *)
(* concatenation of its atoms, cut where two literals start to differ      *)
(* ("xSETUP_CLIENT_DEREF_PLACEHOLDER" is "x" "SETUP_" "CLIENT" "_DEREF"    *)
(* "_PLACEHOLDER"), so that a pattern matches inside a text exactly when    *)
(* its atoms occur there as a contiguous run.  A string taken from the     *)
(* input file (a description, an operation name, ...) is one atom.         *)
(***************************************************************************)
EXTENDS Integers, Sequences, FiniteSets, TLC

\* ---------------------------------------------------------------- bounds
\* Test cases in a suite of the multi-test family.
MaxTests == 2
\* Operations in the test case of the single-test family.
MaxOps == 2
\* Largest thread suffix k of a well-formed name "thread<k>".
MaxThread == 2
\* Directory entries in a batch.
MaxFiles == 3
\* Entries of a legacy expected-event sequence.
MaxExpectations == 2

\* ------------------------------------------------------- generic helpers
\* Option::None, and the panic of an unwrap / panic! / overflow check.
None == [t |-> "none", v |-> <<>>]
Some(x) == [t |-> "some", v |-> x]
Panic == [t |-> "panic", v |-> <<>>]

\* bson / yaml values: string (a text), integer, document (ordered
\* key-value pairs), array, and an uninterpreted payload copied through.
BStr(a) == [t |-> "s", v |-> a]
BInt(n) == [t |-> "i", v |-> n]
BDoc(pairs) == [t |-> "d", v |-> pairs]
BArr(items) == [t |-> "a", v |-> items]
BBool(b) == [t |-> "b", v |-> b]

RECURSIVE Concat(_)
Concat(seqs) ==
    IF seqs = <<>> THEN <<>> ELSE Head(seqs) \o Concat(Tail(seqs))

\* Document::get: the value stored under key, None when absent.
RECURSIVE DocGet(_, _)
DocGet(pairs, key) ==
    IF pairs = <<>> THEN None
    ELSE IF Head(pairs)[1] = key THEN Head(pairs)[2]
    ELSE DocGet(Tail(pairs), key)

\* Document::get_str: Ok only for a string value.
DocGetStr(pairs, key) ==
    LET x == DocGet(pairs, key) IN IF x.t = "s" THEN x ELSE None

\* Document::insert: replaces the value in place, or appends the pair.
DocInsert(pairs, key, val) ==
    IF \E n \in 1..Len(pairs) : pairs[n][1] = key
    THEN [n \in 1..Len(pairs) |->
            IF pairs[n][1] = key THEN <<key, val>> ELSE pairs[n]]
    ELSE Append(pairs, <<key, val>>)

\* ------------------------------------------------- decimal text of usize
Digit == <<"0", "1", "2", "3", "4", "5", "6", "7", "8", "9">>
IsDigit(a) == \E d \in 1..10 : Digit[d] = a
DigitValue(a) == (CHOOSE d \in 1..10 : Digit[d] = a) - 1

\* usize::MAX = 2^64 - 1, the value 0 - 1 wraps to without overflow checks;
\* it is the only usize outside the model's integers and is written -1.
USIZE_MAX == -1
USIZE_MAX_TEXT ==
    <<"1", "8", "4", "4", "6", "7", "4", "4", "0", "7",
      "3", "7", "0", "9", "5", "5", "1", "6", "1", "5">>

\* format!("{}", i) for a usize.
RECURSIVE ToDigits(_)
ToDigits(n) ==
    IF n = USIZE_MAX THEN USIZE_MAX_TEXT
    ELSE IF n < 10 THEN <<Digit[n + 1]>>
    ELSE ToDigits(n \div 10) \o <<Digit[(n % 10) + 1]>>

\* str::parse::<usize>: an optional "+" and at least one digit; -2 is Err.
ParseErr == -2
RECURSIVE DigitsValue(_, _)
DigitsValue(atoms, acc) ==
    IF atoms = <<>> THEN acc
    ELSE DigitsValue(Tail(atoms), acc * 10 + DigitValue(Head(atoms)))

parse_usize(atoms) ==
    LET body == IF atoms # <<>> /\ Head(atoms) = "+" THEN Tail(atoms) ELSE atoms
    IN  IF body # <<>> /\ \A n \in 1..Len(body) : IsDigit(body[n])
        THEN DigitsValue(body, 0)
        ELSE ParseErr

\* ------------------------------------------------------ placeholder tokens
\* A variant of the client definition token without the leading "x".
CLIENT_DEFINITION_PLACEHOLDER_without_x ==
    <<"CLIENT", "_DEFINITION", "_PLACEHOLDER">>

CLIENT_DEFINITION_PLACEHOLDER == <<"x", "CLIENT", "_DEFINITION", "_PLACEHOLDER">>
CLIENT_DEREF_PLACEHOLDER == <<"x", "CLIENT", "_DEREF", "_PLACEHOLDER">>
DATABASE_DEFINITION_PLACEHOLDER == <<"x", "DATABASE", "_DEFINITION", "_PLACEHOLDER">>
DATABASE_DEREF_PLACEHOLDER == <<"x", "DATABASE", "_DEREF", "_PLACEHOLDER">>
DATABASE_NAME_DEFINITION_PLACEHOLDER ==
    <<"x", "DATABASE", "_NAME", "_DEFINITION", "_PLACEHOLDER">>
DATABASE_NAME_DEREF_PLACEHOLDER ==
    <<"x", "DATABASE", "_NAME", "_DEREF", "_PLACEHOLDER">>
COLLECTION_DEFINITION_PLACEHOLDER ==
    <<"x", "COLLECTION", "_DEFINITION", "_PLACEHOLDER">>
COLLECTION_DEREF_PLACEHOLDER == <<"x", "COLLECTION", "_DEREF", "_PLACEHOLDER">>
\* The only token without the leading "x".
COLLECTION_NAME_DEFINITION_PLACEHOLDER ==
    <<"COLLECTION", "_NAME", "_DEFINITION", "_PLACEHOLDER">>
COLLECTION_NAME_DEREF_PLACEHOLDER ==
    <<"x", "COLLECTION", "_NAME", "_DEREF", "_PLACEHOLDER">>
SETUP_CLIENT_DEFINITION_PLACEHOLDER ==
    <<"x", "SETUP_", "CLIENT", "_DEFINITION", "_PLACEHOLDER">>
SETUP_CLIENT_DEREF_PLACEHOLDER ==
    <<"x", "SETUP_", "CLIENT", "_DEREF", "_PLACEHOLDER">>
ADMIN_DATABASE_DEFINITION_PLACEHOLDER ==
    <<"x", "ADMIN_", "DATABASE", "_DEFINITION", "_PLACEHOLDER">>
ADMIN_DATABASE_DEREF_PLACEHOLDER ==
    <<"x", "ADMIN_", "DATABASE", "_DEREF", "_PLACEHOLDER">>
TOPOLOGY_DESCRIPTION_DEFINITION_PLACEHOLDER ==
    <<"x", "TDESC", "_DEFINITION", "_PLACEHOLDER">>
TOPOLOGY_DESCRIPTION_DEREF_PLACEHOLDER ==
    <<"x", "TDESC", "_DEREF", "_PLACEHOLDER">>

thread_definition_placeholder(n) ==
    <<"THREAD_">> \o ToDigits(n) \o <<"_DEFINITION", "_PLACEHOLDER">>

thread_deref_placeholder(n) ==
    <<"THREAD_">> \o ToDigits(n) \o <<"_DEREF", "_PLACEHOLDER">>

\* ------------------------------------------------------------- the regex
\* A pattern is a sequence of literal atoms and of DigitsGroup, the capture
\* group (\d+); a replacement is a sequence of atoms and of GroupRef, "$1".
DigitsGroup == "(\\d+)"
GroupRef == "$1"

Rule(pat, rep) == [pat |-> pat, rep |-> rep]

REGEX_PLACEHOLDER_REPLACEMENTS == <<
    Rule(CLIENT_DEFINITION_PLACEHOLDER, <<"&", "client", " ", "client">>),
    Rule(CLIENT_DEREF_PLACEHOLDER, <<"*", "client">>),
    Rule(DATABASE_DEFINITION_PLACEHOLDER, <<"&", "database", " ", "database">>),
    Rule(DATABASE_DEREF_PLACEHOLDER, <<"*", "database">>),
    Rule(DATABASE_NAME_DEFINITION_PLACEHOLDER,
         <<"&", "databaseName", " ", "sdam-tests">>),
    Rule(DATABASE_NAME_DEREF_PLACEHOLDER, <<"*", "databaseName">>),
    Rule(COLLECTION_DEFINITION_PLACEHOLDER,
         <<"&", "collection", " ", "collection">>),
    Rule(COLLECTION_DEREF_PLACEHOLDER, <<"*", "collection">>),
    Rule(COLLECTION_NAME_DEREF_PLACEHOLDER, <<"*", "collectionName">>),
    Rule(<<"initialData", ":">>, <<"initialData", ":", " ", "&", "initialData">>),
    Rule(SETUP_CLIENT_DEFINITION_PLACEHOLDER,
         <<"&", "setupClient", " ", "setupClient">>),
    Rule(SETUP_CLIENT_DEREF_PLACEHOLDER, <<"*", "setupClient">>),
    Rule(ADMIN_DATABASE_DEFINITION_PLACEHOLDER,
         <<"&", "adminDatabase", " ", "adminDatabase">>),
    Rule(ADMIN_DATABASE_DEREF_PLACEHOLDER, <<"*", "adminDatabase">>),
    Rule(<<"THREAD_", DigitsGroup, "_DEFINITION", "_PLACEHOLDER">>,
         <<"&", "thread", GroupRef, " ", "thread", GroupRef>>),
    Rule(<<"THREAD_", DigitsGroup, "_DEREF", "_PLACEHOLDER">>,
         <<"*", "thread", GroupRef>>),
    Rule(TOPOLOGY_DESCRIPTION_DEFINITION_PLACEHOLDER,
         <<"&", "topologyDescription", " ", "topologyDescription">>),
    Rule(TOPOLOGY_DESCRIPTION_DEREF_PLACEHOLDER, <<"*", "topologyDescription">>) >>

\* End (exclusive) of the longest run of digits that starts at p.
RECURSIVE DigitRunEnd(_, _)
DigitRunEnd(text, p) ==
    IF p <= Len(text) /\ IsDigit(text[p]) THEN DigitRunEnd(text, p + 1) ELSE p

NoMatch == [ok |-> FALSE, end |-> 0, cap |-> <<>>]

\* The match of pat[j..] at position p of text.  (\d+) is greedy; what
\* follows it in every pattern starts with "_", so it takes the whole run.
RECURSIVE MatchFrom(_, _, _, _, _)
MatchFrom(text, pat, j, p, cap) ==
    IF j > Len(pat) THEN [ok |-> TRUE, end |-> p, cap |-> cap]
    ELSE IF pat[j] = DigitsGroup
    THEN LET e == DigitRunEnd(text, p)
         IN  IF e = p THEN NoMatch
             ELSE MatchFrom(text, pat, j + 1, e, SubSeq(text, p, e - 1))
    ELSE IF p <= Len(text) /\ text[p] = pat[j]
    THEN MatchFrom(text, pat, j + 1, p + 1, cap)
    ELSE NoMatch

MatchAt(text, pat, p) == MatchFrom(text, pat, 1, p, <<>>)

\* A variant of Expand that drops the captured digits.
Expand_without_group(rep, cap) ==
    Concat([n \in 1..Len(rep) |-> IF rep[n] = GroupRef THEN <<>> ELSE <<rep[n]>>])

\* The replacement text with "$1" replaced by the captured digits.
RECURSIVE Expand(_, _)
Expand(rep, cap) ==
    IF rep = <<>> THEN <<>>
    ELSE (IF Head(rep) = GroupRef THEN cap ELSE <<Head(rep)>>)
         \o Expand(Tail(rep), cap)

\* The positions of text at which pat matches.
MatchStarts(text, pat) == {p \in 1..Len(text) : MatchAt(text, pat, p).ok}

Min(set) == CHOOSE p \in set : \A q \in set : p <= q

\* Regex::replace_all: every non-overlapping match, leftmost first.  The
\* scan resumes at the end of a match, so a match that starts inside the
\* previous one is skipped.
RECURSIVE ReplaceFrom(_, _, _, _, _)
ReplaceFrom(text, pat, rep, starts, p) ==
    LET ahead == {q \in starts : q >= p}
    IN  IF ahead = {} THEN SubSeq(text, p, Len(text))
        ELSE LET m == MatchAt(text, pat, Min(ahead))
             IN  SubSeq(text, p, Min(ahead) - 1) \o Expand(rep, m.cap)
                 \o ReplaceFrom(text, pat, rep, starts, m.end)

\* Regex::replace in the place of replace_all: the leftmost match only.
replace_first(text, pat, rep) ==
    LET starts == MatchStarts(text, pat)
    IN  IF starts = {} THEN text
        ELSE LET m == MatchAt(text, pat, Min(starts))
             IN  SubSeq(text, 1, Min(starts) - 1) \o Expand(rep, m.cap)
                 \o SubSeq(text, m.end, Len(text))

replace_all(text, pat, rep) ==
    ReplaceFrom(text, pat, rep, MatchStarts(text, pat), 1)

\* The number of non-overlapping matches of pat in text.
RECURSIVE CountFrom(_, _, _, _)
CountFrom(text, pat, starts, p) ==
    LET ahead == {q \in starts : q >= p}
    IN  IF ahead = {} THEN 0
        ELSE 1 + CountFrom(text, pat, starts,
                           MatchAt(text, pat, Min(ahead)).end)

Occurrences(text, pat) == CountFrom(text, pat, MatchStarts(text, pat), 1)

\* ------------------------------------------------------ the legacy model
\* crud_v2::Operation.  name and object are strings of the input file;
\* command_name, arguments, error and result are Options.
LegacyOperation(name, object, command_name, arguments, error, result) ==
    [name |-> name, object |-> object, command_name |-> command_name,
     arguments |-> arguments, error |-> error, result |-> result]

\* crud_v2::OperationResult, an untagged enum: Error(OperationError) or
\* Success(Bson).
ResultSuccess(b) == [t |-> "success", v |-> b]
ResultError(contains, code_name, code, labels_contain, labels_omit) ==
    [t |-> "error",
     v |-> [error_contains |-> contains, error_code_name |-> code_name,
            error_code |-> code, error_labels_contain |-> labels_contain,
            error_labels_omit |-> labels_omit]]

\* crud_v2::Test, the fields the conversion reads.
LegacyTest(description, client_uri, fail_point, operations, expectations, outcome) ==
    [description |-> description, client_uri |-> client_uri,
     fail_point |-> fail_point, operations |-> operations,
     expectations |-> expectations, outcome |-> outcome]

\* crud_v2::TestData: Single(documents) or Many(map).
DataSingle(docs) == [t |-> "Single", v |-> docs]
DataMany(map) == [t |-> "Many", v |-> map]

\* crud_v2::TestFile, the fields the conversion reads.
LegacyTestFile(collection_name, data, tests) ==
    [collection_name |-> collection_name, data |-> data, tests |-> tests]

\* ------------------------------------------------------ the unified model
SERVER_DESCRIPTION_CHANGED == "serverDescriptionChangedEvent"
POOL_CLEARED == "poolClearedEvent"
POOL_READY == "poolReadyEvent"
COMMAND_STARTED == "commandStartedEvent"

\* unified::CreateEntity and its variants.
ClientEntity(id, observe_events, uri_options) ==
    [kind |-> "client", id |-> id, observe_events |-> observe_events,
     uri_options |-> uri_options]
DatabaseEntity(id, client, database_name) ==
    [kind |-> "database", id |-> id, client |-> client,
     database_name |-> database_name]
CollectionEntity(id, database, collection_name) ==
    [kind |-> "collection", id |-> id, database |-> database,
     collection_name |-> collection_name]
ThreadEntity(id) == [kind |-> "thread", id |-> id]

\* unified::InitialData.
InitialData(collection_name, database_name, documents) ==
    [collection_name |-> collection_name, database_name |-> database_name,
     documents |-> documents]

\* unified::Operation.
Operation(name, object, arguments, expect_result, expect_error) ==
    [name |-> name, object |-> object, arguments |-> arguments,
     save_result_as_entity |-> None, expect_result |-> expect_result,
     expect_error |-> expect_error]

\* unified::ExpectError.
ExpectError(is_error, contains, code, code_name, labels_contain, labels_omit) ==
    [is_error |-> is_error, error_contains |-> contains, error_code |-> code,
     error_code_name |-> code_name, error_labels_contain |-> labels_contain,
     error_labels_omit |-> labels_omit]

\* A HashSet<&str> of event kinds, listed in one fixed order (the order a
\* HashSet iterates in is arbitrary and carries no token).
EventKindOrder ==
    <<COMMAND_STARTED, POOL_CLEARED, POOL_READY, SERVER_DESCRIPTION_CHANGED>>

RECURSIVE EventKindsFrom(_, _)
EventKindsFrom(set, n) ==
    IF n > Len(EventKindOrder) THEN <<>>
    ELSE (IF EventKindOrder[n] \in set
          THEN <<BStr(<<EventKindOrder[n]>>)>> ELSE <<>>)
         \o EventKindsFrom(set, n + 1)

\* bson::to_bson of a CreateEntity: externally tagged, camelCase keys.
entity_to_bson(e) ==
    CASE e.kind = "client" ->
           BDoc(<< <<"client", BDoc(<< <<"id", BStr(e.id)>>,
                <<"observeEvents",
                  IF e.observe_events = None THEN None
                  ELSE BArr(EventKindsFrom(e.observe_events.v, 1))>>,
                <<"uriOptions", e.uri_options>> >>)>> >>)
      [] e.kind = "database" ->
           BDoc(<< <<"database", BDoc(<< <<"id", BStr(e.id)>>,
                <<"client", BStr(e.client)>>,
                <<"databaseName", BStr(e.database_name)>> >>)>> >>)
      [] e.kind = "collection" ->
           BDoc(<< <<"collection", BDoc(<< <<"id", BStr(e.id)>>,
                <<"database", BStr(e.database)>>,
                <<"collectionName", BStr(e.collection_name)>> >>)>> >>)
      [] e.kind = "thread" ->
           BDoc(<< <<"thread", BDoc(<< <<"id", BStr(e.id)>> >>)>> >>)

entities_to_bson(ents) == BArr([n \in 1..Len(ents) |-> entity_to_bson(ents[n])])

\* Serialize for ExpectError (skip_serializing_none).
expect_error_to_bson(e) ==
    IF e = None THEN None
    ELSE BDoc(<< <<"isError", e.is_error>>,
                 <<"errorContains", e.error_contains>>,
                 <<"errorCode", e.error_code>>,
                 <<"errorCodeName", e.error_code_name>>,
                 <<"errorLabelsContain", e.error_labels_contain>>,
                 <<"errorLabelsOmit", e.error_labels_omit>> >>)

\* Serialize for unified::Operation.
operation_to_bson(op) ==
    BDoc(<< <<"name", BStr(<<op.name>>)>>,
            <<"object", BStr(op.object)>>,
            <<"arguments", op.arguments>>,
            <<"saveResultAsEntity", op.save_result_as_entity>>,
            <<"expectResult", op.expect_result>>,
            <<"expectError", expect_error_to_bson(op.expect_error)>> >>)

\* Deserialize for crud_v2::Operation (deny_unknown_fields): name and object
\* are required strings; anything else makes from_bson fail.
LegacyOperationKeys ==
    {"name", "object", "command_name", "arguments", "error", "result"}

\* The untagged OperationResult: a document of OperationError's keys alone
\* (camelCase, deny_unknown_fields) is Error, any other value is Success.
OperationErrorKeys ==
    {"errorContains", "errorCodeName", "errorCode", "errorLabelsContain",
     "errorLabelsOmit"}

result_from_bson(b) ==
    IF b = None THEN None
    ELSE IF b.t = "d" /\ \A n \in 1..Len(b.v) : b.v[n][1] \in OperationErrorKeys
    THEN ResultError(DocGet(b.v, "errorContains"), DocGet(b.v, "errorCodeName"),
                     DocGet(b.v, "errorCode"), DocGet(b.v, "errorLabelsContain"),
                     DocGet(b.v, "errorLabelsOmit"))
    ELSE ResultSuccess(b)

operation_from_bson(b) ==
    IF b.t # "d" THEN Panic
    ELSE LET name == DocGetStr(b.v, "name")
             object == DocGetStr(b.v, "object")
             arguments == DocGet(b.v, "arguments")
             command_name == DocGet(b.v, "command_name")
         IN  IF \/ \E n \in 1..Len(b.v) : b.v[n][1] \notin LegacyOperationKeys
                \/ name = None \/ object = None
                \/ arguments.t \notin {"d", "none"}
                \/ command_name.t \notin {"s", "none"}
                \/ DocGet(b.v, "error").t \notin {"b", "none"}
             THEN Panic
             ELSE LegacyOperation(name.v[1], object.v[1], command_name,
                                  arguments, DocGet(b.v, "error"),
                                  result_from_bson(DocGet(b.v, "result")))

\* --------------------------------------------------- operation translator
\* Operation::thread_number: strip_prefix("thread").unwrap(), parse::<usize>()
\* .unwrap(), minus one.  0 - 1 panics in a build with overflow checks and
\* wraps to usize::MAX in one without.  PanicNumber stands for the panic.
PanicNumber == -3

\* A variant of thread_number that keeps the 1-based number.
thread_number_one_based(v2_name, overflow_checks) ==
    IF v2_name = <<>> \/ Head(v2_name) # "thread" THEN PanicNumber
    ELSE LET n == parse_usize(Tail(v2_name))
         IN  IF n = ParseErr THEN PanicNumber ELSE n

thread_number(v2_name, overflow_checks) ==
    IF v2_name = <<>> \/ Head(v2_name) # "thread" THEN PanicNumber
    ELSE LET n == parse_usize(Tail(v2_name))
         IN  IF n = ParseErr THEN PanicNumber
             ELSE IF n = 0
             THEN (IF overflow_checks THEN PanicNumber ELSE USIZE_MAX)
             ELSE n - 1

\* A variant of event_document with the two pool events exchanged.
event_document_pools_exchanged(event_name) ==
    CASE event_name = <<"ServerMarkedUnknownEvent">> ->
           BDoc(<< <<SERVER_DESCRIPTION_CHANGED,
                     BDoc(<< <<"newDescription",
                               BDoc(<< <<"type", BStr(<<"Unknown">>)>> >>)>> >>)>> >>)
      [] event_name = <<"PoolClearedEvent">> ->
           BDoc(<< <<POOL_READY, BDoc(<<>>)>> >>)
      [] event_name = <<"PoolReadyEvent">> ->
           BDoc(<< <<POOL_CLEARED, BDoc(<<>>)>> >>)
      [] OTHER -> Panic

\* The canonical event document of a legacy event name.
event_document(event_name) ==
    CASE event_name = <<"ServerMarkedUnknownEvent">> ->
           BDoc(<< <<SERVER_DESCRIPTION_CHANGED,
                     BDoc(<< <<"newDescription",
                               BDoc(<< <<"type", BStr(<<"Unknown">>)>> >>)>> >>)>> >>)
      [] event_name = <<"PoolClearedEvent">> ->
           BDoc(<< <<POOL_CLEARED, BDoc(<<>>)>> >>)
      [] event_name = <<"PoolReadyEvent">> ->
           BDoc(<< <<POOL_READY, BDoc(<<>>)>> >>)
      [] OTHER -> Panic

\* The (expect_result, expect_error) pair of a legacy result and error flag.
expectation_of(old_op) ==
    IF old_op.result.t = "success"
    THEN [expect_result |-> old_op.result.v, expect_error |-> None]
    ELSE IF old_op.result.t = "error"
    THEN [expect_result |-> None,
          expect_error |->
              ExpectError(None, old_op.result.v.error_contains,
                          old_op.result.v.error_code, None,
                          old_op.result.v.error_labels_contain,
                          old_op.result.v.error_labels_omit)]
    ELSE IF old_op.error.t = "b" /\ old_op.error.v
    THEN [expect_result |-> None,
          expect_error |-> ExpectError(BBool(TRUE), None, None, None, None, None)]
    ELSE [expect_result |-> None, expect_error |-> None]

\* unified::Operation::from_crud_v2.  The result is Panic when an unwrap or
\* a panic! of the function fires.
RECURSIVE Operation_from_crud_v2(_, _, _)
Operation_from_crud_v2(old_op, test_number, overflow_checks) ==
    LET name == old_op.name
        arguments == old_op.arguments
        object == IF old_op.object = "collection"
                  THEN COLLECTION_DEREF_PLACEHOLDER ELSE <<old_op.object>>
        thread_name == IF arguments = None THEN None
                       ELSE DocGetStr(arguments.v, "name")
        thread == IF thread_name = None THEN PanicNumber
                  ELSE thread_number(thread_name.v, overflow_checks)
        Make(n, o, a) == [name |-> n, object |-> o, arguments |-> a]
        nao ==
          CASE name \in {"waitForEvent", "assertEventCount"} ->
                 IF arguments = None \/ DocGetStr(arguments.v, "event") = None
                 THEN Panic
                 ELSE LET event == event_document(DocGetStr(arguments.v, "event").v)
                          count == DocGet(arguments.v, "count")
                      IN  IF event = Panic \/ count = None THEN Panic
                          ELSE Make(name, object,
                                    BDoc(<< <<"client", BStr(CLIENT_DEREF_PLACEHOLDER)>>,
                                            <<"event", event>>,
                                            <<"count", count>> >>))
            [] name = "recordPrimary" ->
                 Make("recordTopologyDescription", object,
                      BDoc(<< <<"client", BStr(CLIENT_DEREF_PLACEHOLDER)>>,
                              <<"id", BStr(TOPOLOGY_DESCRIPTION_DEFINITION_PLACEHOLDER)>> >>))
            [] name = "waitForPrimaryChange" ->
                 LET new_arguments ==
                         << <<"client", BStr(CLIENT_DEREF_PLACEHOLDER)>>,
                            <<"priorTopologyDescription",
                              BStr(TOPOLOGY_DESCRIPTION_DEREF_PLACEHOLDER)>> >>
                     timeout == IF arguments = None THEN None
                                ELSE DocGet(arguments.v, "timeoutMS")
                 IN  Make(name, object,
                          BDoc(IF timeout = None THEN new_arguments
                               ELSE DocInsert(new_arguments, "timeoutMS", timeout)))
            [] name = "runAdminCommand" ->
                 IF arguments = None \/ old_op.command_name = None THEN Panic
                 ELSE Make("runCommand", ADMIN_DATABASE_DEREF_PLACEHOLDER,
                           BDoc(DocInsert(arguments.v, "commandName",
                                          old_op.command_name)))
            [] name = "runCommand" ->
                 IF arguments = None \/ old_op.command_name = None THEN Panic
                 ELSE Make(name, object,
                           BDoc(DocInsert(arguments.v, "commandName",
                                          old_op.command_name)))
            [] name = "startThread" ->
                 IF thread = PanicNumber THEN Panic
                 ELSE Make("createEntities", <<"testRunner">>,
                           BDoc(<< <<"entities",
                                     entities_to_bson(<<ThreadEntity(
                                         thread_definition_placeholder(thread))>>)>> >>))
            [] name = "runOnThread" ->
                 IF thread = PanicNumber \/ DocGet(arguments.v, "operation") = None
                 THEN Panic
                 ELSE LET old_operation ==
                              operation_from_bson(DocGet(arguments.v, "operation"))
                          new_op == IF old_operation = Panic THEN Panic
                                    ELSE Operation_from_crud_v2(
                                             old_operation, test_number, overflow_checks)
                      IN  IF new_op = Panic THEN Panic
                          ELSE Make(name, object,
                                    BDoc(<< <<"thread",
                                              BStr(thread_deref_placeholder(thread))>>,
                                            <<"operation", operation_to_bson(new_op)>> >>))
            [] name = "waitForThread" ->
                 IF thread = PanicNumber THEN Panic
                 ELSE Make(name, object,
                           BDoc(<< <<"thread",
                                     BStr(thread_deref_placeholder(thread))>> >>))
            [] name = "configureFailPoint" ->
                 IF arguments = None THEN Panic
                 ELSE Make("failPoint", <<"testRunner">>,
                           BDoc(DocInsert(arguments.v, "client",
                                          BStr(SETUP_CLIENT_DEREF_PLACEHOLDER))))
            [] OTHER -> Make(name, object, arguments)
        expected == expectation_of(old_op)
    IN  IF nao = Panic THEN Panic
        ELSE Operation(nao.name, nao.object, nao.arguments,
                       expected.expect_result, expected.expect_error)

\* ------------------------------------------------------- test translator
\* crud_v2::Test::observed_events: scans the test's own operation list.
\* The result is the HashSet, or Panic.
EventSet(set) == [t |-> "set", v |-> set]

observed_kind(op) ==
    IF op.arguments = None \/ DocGetStr(op.arguments.v, "event") = None
    THEN Panic
    ELSE LET event_name == DocGetStr(op.arguments.v, "event").v
         IN  CASE event_name = <<"PoolClearedEvent">> -> Some(POOL_CLEARED)
               [] event_name = <<"PoolReadyEvent">> -> Some(POOL_READY)
               [] event_name = <<"ServerMarkedUnknownEvent">> ->
                    Some(SERVER_DESCRIPTION_CHANGED)
               [] OTHER -> Panic

observed_events(old_test) ==
    LET waits == {n \in 1..Len(old_test.operations) :
                     old_test.operations[n].name
                         \in {"waitForEvent", "assertEventCount"}}
    IN  IF \E n \in waits : observed_kind(old_test.operations[n]) = Panic
        THEN Panic
        ELSE EventSet(
                 (IF old_test.expectations # None THEN {COMMAND_STARTED} ELSE {})
                 \cup {observed_kind(old_test.operations[n]).v : n \in waits})

\* unified::ExpectEvents with its CommandStartedEvent entries.
ExpectEvents(client, event_type, events) ==
    [client |-> client, event_type |-> event_type, events |-> events]

CommandStartedEvent(command, command_name, database_name) ==
    [command |-> command, command_name |-> command_name,
     database_name |-> database_name]

\* unified::Test.
Test(description, operations, expect_events, outcome) ==
    [description |-> description, run_on_requirements |-> None,
     operations |-> operations, expect_events |-> expect_events,
     outcome |-> outcome]

\* A variant of the leading failPoint operation, bound to the test's client.
fail_point_operation_on_client(fp) ==
    Operation("failPoint", <<"testRunner">>,
              BDoc(<< <<"client", BStr(CLIENT_DEREF_PLACEHOLDER)>>,
                      <<"failPoint", fp>> >>),
              None, None)

\* The leading failPoint operation of a test with a fail_point.
fail_point_operation(fp) ==
    Operation("failPoint", <<"testRunner">>,
              BDoc(<< <<"client", BStr(SETUP_CLIENT_DEREF_PLACEHOLDER)>>,
                      <<"failPoint", fp>> >>),
              None, None)

\* A variant of test_entities whose database names its client literally.
test_entities_literal_client(old_test, observed) ==
    << ClientEntity(CLIENT_DEFINITION_PLACEHOLDER, observed, old_test.client_uri),
       DatabaseEntity(DATABASE_DEFINITION_PLACEHOLDER, <<"client">>,
                      DATABASE_NAME_DEREF_PLACEHOLDER),
       CollectionEntity(COLLECTION_DEFINITION_PLACEHOLDER,
                        DATABASE_DEREF_PLACEHOLDER,
                        COLLECTION_NAME_DEREF_PLACEHOLDER) >>

\* A variant of test_entities without the collection entity.
test_entities_without_collection(old_test, observed) ==
    << ClientEntity(CLIENT_DEFINITION_PLACEHOLDER, observed, old_test.client_uri),
       DatabaseEntity(DATABASE_DEFINITION_PLACEHOLDER, CLIENT_DEREF_PLACEHOLDER,
                      DATABASE_NAME_DEREF_PLACEHOLDER) >>

\* The client / database / collection entities of one test.
test_entities(old_test, observed) ==
    << ClientEntity(CLIENT_DEFINITION_PLACEHOLDER, observed, old_test.client_uri),
       DatabaseEntity(DATABASE_DEFINITION_PLACEHOLDER, CLIENT_DEREF_PLACEHOLDER,
                      DATABASE_NAME_DEREF_PLACEHOLDER),
       CollectionEntity(COLLECTION_DEFINITION_PLACEHOLDER,
                        DATABASE_DEREF_PLACEHOLDER,
                        COLLECTION_NAME_DEREF_PLACEHOLDER) >>

create_entities_operation(ents) ==
    Operation("createEntities", <<"testRunner">>,
              BDoc(<< <<"entities", entities_to_bson(ents)>> >>), None, None)

\* unified::Test::from_crud_v2; Panic when observed_events or the
\* translation of an operation panics.
Test_from_crud_v2(old_test, test_number, overflow_checks) ==
    LET observed == observed_events(old_test)
        translated == [n \in 1..Len(old_test.operations) |->
                          Operation_from_crud_v2(old_test.operations[n],
                                                 test_number, overflow_checks)]
        ents == test_entities(old_test, observed)
        operations ==
            (IF old_test.fail_point # None
             THEN <<fail_point_operation(old_test.fail_point)>> ELSE <<>>)
            \o (IF ents # <<>> THEN <<create_entities_operation(ents)>> ELSE <<>>)
            \o translated
        expect_events ==
            IF old_test.expectations = None THEN None
            ELSE <<ExpectEvents(
                     CLIENT_DEREF_PLACEHOLDER, "command",
                     [n \in 1..Len(old_test.expectations.v) |->
                         CommandStartedEvent(
                             old_test.expectations.v[n].command,
                             old_test.expectations.v[n].command_name,
                             DATABASE_NAME_DEREF_PLACEHOLDER)])>>
        outcome ==
            IF old_test.outcome = None THEN None
            ELSE <<InitialData(COLLECTION_NAME_DEREF_PLACEHOLDER,
                               DATABASE_NAME_DEREF_PLACEHOLDER,
                               old_test.outcome.v.collection.data)>>
    IN  IF observed = Panic \/ \E n \in 1..Len(translated) : translated[n] = Panic
        THEN Panic
        ELSE Test(old_test.description, operations, expect_events, outcome)

\* --------------------------------------------------------- serialization
\* Serialize for the structures of the unified model (camelCase keys, in
\* field order).
initial_data_to_bson(d) ==
    BDoc(<< <<"collectionName", BStr(d.collection_name)>>,
            <<"databaseName", BStr(d.database_name)>>,
            <<"documents", d.documents>> >>)

expect_events_to_bson(e) ==
    BDoc(<< <<"client", BStr(e.client)>>,
            <<"eventType", BStr(<<e.event_type>>)>>,
            <<"events",
              BArr([n \in 1..Len(e.events) |->
                  BDoc(<< <<"commandStartedEvent",
                            BDoc(<< <<"command", e.events[n].command>>,
                                    <<"commandName", e.events[n].command_name>>,
                                    <<"databaseName",
                                      BStr(e.events[n].database_name)>> >>)>> >>)])>> >>)

test_to_bson(t) ==
    BDoc(<< <<"description", BStr(<<t.description>>)>>,
            <<"runOnRequirements", t.run_on_requirements>>,
            <<"operations",
              BArr([n \in 1..Len(t.operations) |-> operation_to_bson(t.operations[n])])>>,
            <<"expectEvents",
              IF t.expect_events = None THEN None
              ELSE BArr([n \in 1..Len(t.expect_events) |->
                            expect_events_to_bson(t.expect_events[n])])>>,
            <<"outcome",
              IF t.outcome = None THEN None
              ELSE BArr([n \in 1..Len(t.outcome) |->
                            initial_data_to_bson(t.outcome[n])])>> >>)

\* unified::TestFile.
TestFile(description, create_entities, initial_data, tests) ==
    [description |-> description, schema_version |-> "1.9",
     create_entities |-> create_entities, initial_data |-> initial_data,
     tests |-> tests]

test_file_to_bson(f) ==
    BDoc(<< <<"description", BStr(f.description)>>,
            <<"schemaVersion", BStr(<<f.schema_version>>)>>,
            <<"createEntities", entities_to_bson(f.create_entities)>>,
            <<"initialData",
              BArr([n \in 1..Len(f.initial_data) |->
                       initial_data_to_bson(f.initial_data[n])])>>,
            <<"tests",
              BArr([n \in 1..Len(f.tests) |-> test_to_bson(f.tests[n])])>> >>)

\* The YAML text of a value: "key:" then the value, one scalar per line,
\* "- " before a sequence item.  A None field is skipped.  Indentation is
\* left out: no pattern of the resolver contains white space.
IsScalar(val) == val.t \in {"s", "i", "b"} \/ val.v = <<>>

RECURSIVE Render(_)
Render(val) ==
    CASE val.t = "s" -> val.v \o <<"\n">>
      [] val.t = "i" -> ToDigits(val.v) \o <<"\n">>
      [] val.t = "b" -> <<IF val.v THEN "true" ELSE "false", "\n">>
      [] val.t = "d" ->
           IF val.v = <<>> THEN <<"{}", "\n">>
           ELSE Concat([n \in 1..Len(val.v) |->
                   IF val.v[n][2] = None THEN <<>>
                   ELSE <<val.v[n][1], ":">>
                        \o (IF IsScalar(val.v[n][2]) THEN <<" ">> ELSE <<"\n">>)
                        \o Render(val.v[n][2])])
      [] val.t = "a" ->
           IF val.v = <<>> THEN <<"[]", "\n">>
           ELSE Concat([n \in 1..Len(val.v) |-> <<"-", " ">> \o Render(val.v[n])])

\* serde_yaml::to_string(&test_file).
to_string(test_file) == <<"---", "\n">> \o Render(test_file_to_bson(test_file))

\* ------------------------------------------------------------ the inputs
\* Payloads of the input file that the conversion copies through.
AnyDocument == BDoc(<< <<"x", BInt(1)>> >>)
FailPointDocument ==
    BDoc(<< <<"configureFailPoint", BStr(<<"failCommand">>)>> >>)

ThreadName(k) == <<"thread">> \o ToDigits(k)

OpFind ==
    LegacyOperation("find", "collection", None,
                    BDoc(<< <<"filter", BDoc(<<>>)>> >>), None, None)
OpEventOn(name, object, event, count) ==
    LegacyOperation(name, object, None,
                    BDoc(<< <<"event", BStr(<<event>>)>>, <<"count", BInt(count)>> >>),
                    None, None)
OpEvent(name, event) == OpEventOn(name, "testRunner", event, 1)
OpRecordPrimary ==
    LegacyOperation("recordPrimary", "testRunner", None, None, None, None)
OpWaitForPrimaryChange ==
    LegacyOperation("waitForPrimaryChange", "testRunner", None,
                    BDoc(<< <<"timeoutMS", BInt(5)>> >>), None, None)
OpRunAdminCommand ==
    LegacyOperation("runAdminCommand", "testRunner", BStr(<<"ping">>),
                    BDoc(<< <<"command", AnyDocument>> >>), None, None)
OpConfigureFailPoint ==
    LegacyOperation("configureFailPoint", "testRunner", None,
                    BDoc(<< <<"failPoint", FailPointDocument>> >>), None, None)
OpStartThread(thread_name) ==
    LegacyOperation("startThread", "testRunner", None,
                    BDoc(<< <<"name", BStr(thread_name)>> >>), None, None)
OpWaitForThread(thread_name) ==
    LegacyOperation("waitForThread", "testRunner", None,
                    BDoc(<< <<"name", BStr(thread_name)>> >>), None, None)

\* The document of a legacy operation nested under runOnThread.
NestedDocument(op) ==
    BDoc(<< <<"name", BStr(<<op.name>>)>>, <<"object", BStr(<<op.object>>)>>,
            <<"command_name", op.command_name>>,
            <<"arguments", op.arguments>> >>)
OpRunOnThread(thread_name, op) ==
    LegacyOperation("runOnThread", "testRunner", None,
                    BDoc(<< <<"name", BStr(thread_name)>>,
                            <<"operation", NestedDocument(op)>> >>), None, None)

\* The operations that sequences are built from.
CoreOps ==
    { OpFind, OpEvent("waitForEvent", "PoolClearedEvent"), OpRecordPrimary,
      OpWaitForPrimaryChange, OpRunAdminCommand, OpConfigureFailPoint,
      OpStartThread(ThreadName(1)), OpRunOnThread(ThreadName(1), OpFind),
      OpWaitForThread(ThreadName(1)) }

\* Every well-formed operation shape, each alone in a test.
EventNames == {"PoolClearedEvent", "PoolReadyEvent", "ServerMarkedUnknownEvent"}
NestedOps ==
    { OpFind, OpRunAdminCommand, OpConfigureFailPoint, OpRecordPrimary,
      OpWaitForPrimaryChange, OpEvent("waitForEvent", "PoolReadyEvent"),
      OpEvent("assertEventCount", "ServerMarkedUnknownEvent"),
      OpStartThread(ThreadName(2)), OpWaitForThread(ThreadName(2)) }
GoodOps ==
    CoreOps
    \cup {OpEvent(name, e) : name \in {"waitForEvent", "assertEventCount"},
                             e \in EventNames}
    \cup {OpStartThread(ThreadName(k)) : k \in 1..MaxThread}
    \cup {OpWaitForThread(ThreadName(k)) : k \in 1..MaxThread}
    \cup {OpRunOnThread(ThreadName(k), OpFind) : k \in 1..MaxThread}
    \cup {OpRunOnThread(ThreadName(1), op) : op \in NestedOps}
    \cup { OpStartThread(ThreadName(10)), OpWaitForThread(ThreadName(10)),
           OpRunOnThread(ThreadName(10), OpFind) }
    \cup { OpEventOn("waitForEvent", "collection", "PoolClearedEvent", 3),
           OpEventOn("assertEventCount", "testRunner", "PoolReadyEvent", 0),
           LegacyOperation("waitForPrimaryChange", "testRunner", None, None,
                           None, None),
           LegacyOperation("runCommand", "database", BStr(<<"ping">>),
                           BDoc(<< <<"command", AnyDocument>> >>), None, None),
           LegacyOperation("insertOne", "collection", None, AnyDocument,
                           None, ResultSuccess(AnyDocument)),
           LegacyOperation("insertOne", "collection", None, AnyDocument, None,
                           ResultError(BStr(<<"boom">>), BStr(<<"Code">>),
                                       BInt(7), None, None)),
           LegacyOperation("insertOne", "collection", None, AnyDocument,
                           BBool(TRUE), None),
           LegacyOperation("assertCollectionExists", "testRunner", None, None,
                           BBool(FALSE), None) }

\* Operations on which the translation panics.
BadThreadNames ==
    { <<"thread", "0">>, <<"thread">>, <<"thread", "x">>, <<"thr", "1">>,
      <<"worker", "1">> }
BadOps ==
    { OpEvent("waitForEvent", "ConnectionReadyEvent"),
      OpEvent("assertEventCount", "ConnectionReadyEvent"),
      OpRunOnThread(ThreadName(1), OpEvent("waitForEvent", "ConnectionReadyEvent")),
      LegacyOperation("waitForEvent", "testRunner", None,
                      BDoc(<< <<"event", BStr(<<"PoolReadyEvent">>)>> >>),
                      None, None),
      LegacyOperation("runAdminCommand", "testRunner", None,
                      BDoc(<< <<"command", AnyDocument>> >>), None, None),
      LegacyOperation("configureFailPoint", "testRunner", None, None, None, None) }
    \cup {OpStartThread(name) : name \in BadThreadNames}
    \cup {OpWaitForThread(name) : name \in BadThreadNames}
    \cup {OpRunOnThread(name, OpFind) : name \in BadThreadNames}

\* Sequences over a set, of length at most n.
RECURSIVE SeqsUpTo(_, _)
SeqsUpTo(set, n) ==
    IF n = 0 THEN {<<>>}
    ELSE LET shorter == SeqsUpTo(set, n - 1)
         IN  shorter \cup {Append(q, x) : q \in {r \in shorter : Len(r) = n - 1},
                                          x \in set}

Expectations(n) ==
    Some([k \in 1..n |->
             [command_name |-> BStr(<<"find">>), database_name |-> None,
              command |-> AnyDocument]])
OutcomeData == Some([collection |-> [name |-> None, data |-> BArr(<<AnyDocument>>)]])

PlainTest(ops) == LegacyTest("t", None, None, ops, None, None)

\* The test cases that multi-test suites are built from.
TestShapes ==
    { PlainTest(<<OpFind>>),
      PlainTest(<<>>),
      LegacyTest("t", None, FailPointDocument,
                 <<OpFind, OpEvent("waitForEvent", "PoolClearedEvent")>>,
                 Expectations(1), OutcomeData),
      PlainTest(<<OpRunAdminCommand>>),
      PlainTest(<<OpRecordPrimary, OpWaitForPrimaryChange>>),
      PlainTest(<<OpStartThread(ThreadName(1)), OpRunOnThread(ThreadName(1), OpFind),
                  OpWaitForThread(ThreadName(1))>>),
      PlainTest(<<OpStartThread(ThreadName(10)),
                  OpRunOnThread(ThreadName(10), OpStartThread(ThreadName(2))),
                  OpWaitForThread(ThreadName(10))>>) }

\* Single tests with every combination of the optional test fields.
FlaggedTests ==
    { LegacyTest("t", uri, fp, ops, ex, out) :
        uri \in {None}, fp \in {None, FailPointDocument},
        ops \in { <<>>, <<OpEvent("assertEventCount", "PoolReadyEvent"), OpFind>> },
        ex \in {None} \cup {Expectations(n) : n \in 0..MaxExpectations},
        out \in {None, OutcomeData} }
    \cup { LegacyTest("t", AnyDocument, None, <<OpFind>>, None, None) }

SingleData == DataSingle(<<AnyDocument>>)
ManyData == DataMany(<< <<"coll", <<AnyDocument>> >> >>)

Suite(data, tests) == LegacyTestFile("coll", data, tests)

\* The legacy suites converted alone.
Suites ==
    {Suite(SingleData, <<PlainTest(ops)>>) : ops \in SeqsUpTo(CoreOps, MaxOps)}
    \cup {Suite(SingleData, <<PlainTest(<<op>>)>>) : op \in GoodOps \cup BadOps}
    \cup {Suite(SingleData, tests) : tests \in SeqsUpTo(TestShapes, MaxTests)}
    \cup {Suite(SingleData, <<t>>) : t \in FlaggedTests}
    \cup {Suite(ManyData, tests) : tests \in SeqsUpTo(TestShapes, 1)}
    \cup {Suite(ManyData, <<PlainTest(<<op>>)>>) : op \in BadOps}

\* A directory entry: the file's stem, its extension (None when it has
\* none) and what serde_yaml::from_reader makes of its content: a
\* crud_v2::TestFile, or ParseError.
ParseError == [t |-> "parse_error", v |-> <<>>]
Entry(stem, ext, content) == [stem |-> stem, ext |-> ext, content |-> content]

\* The file shapes that batches are built from.
BatchContents ==
    { Some(Suite(SingleData, <<PlainTest(<<OpFind>>)>>)),
      Some(Suite(ManyData, <<PlainTest(<<OpFind>>)>>)),
      Some(Suite(SingleData,
                 <<PlainTest(<<OpEvent("waitForEvent", "ConnectionReadyEvent")>>)>>)),
      ParseError }
BatchShapes ==
    {[ext |-> Some("yml"), content |-> c] : c \in BatchContents}
    \cup {[ext |-> Some("txt"), content |-> ParseError],
          [ext |-> None, content |-> ParseError]}

StemOf(n) == <<"f">> \o ToDigits(n)

Directories ==
    {<<Entry(StemOf(1), Some("yml"), Some(suite))>> : suite \in Suites}
    \cup {[n \in 1..Len(q) |-> Entry(StemOf(n), q[n].ext, q[n].content)] :
             q \in SeqsUpTo(BatchShapes, MaxFiles)}

\* -------------------------------------------------------------- the state
VARIABLES
    paths,                  \* main: the directory entries not yet visited
    pc,                     \* the statement main / convert is at
    overflow_checks,        \* the build: are integer overflow checks on
    filename,               \* main: the stem of the entry being converted
    old,                    \* convert: the legacy suite (None outside convert)
    old_tests,              \* convert: the test cases not yet translated
    contains_admin_command, \* convert: the pre-scan for runAdminCommand
    contains_fail_point,    \* convert: the pre-scan for fail points
    ents,                   \* convert: the file-level entities
    tests,                  \* convert: the translated test cases
    initial_data,           \* convert: the initialData block
    test_file,              \* convert: the assembled unified::TestFile
    raw_string,             \* convert: the text being resolved
    rule,                   \* convert: the index of the next resolver rule
    unified                 \* the output directory: <<[name, content]>>

vars ==
    <<paths, pc, overflow_checks, filename, old, old_tests,
      contains_admin_command, contains_fail_point, ents, tests, initial_data,
      test_file, raw_string, rule, unified>>

\* The locals of convert before it is entered.
NoLocals ==
    /\ old = None
    /\ old_tests = <<>>
    /\ contains_admin_command = FALSE
    /\ contains_fail_point = FALSE
    /\ ents = <<>>
    /\ tests = <<>>
    /\ initial_data = <<>>
    /\ test_file = None
    /\ raw_string = <<>>
    /\ rule = 0

\* Does 0 - 1 get evaluated on this directory (a thread name "thread0")?
SubtractsFromZero(dir) ==
    \E n \in 1..Len(dir) :
        /\ dir[n].content.t = "some"
        /\ \E k \in 1..Len(dir[n].content.v.tests) :
              \E j \in 1..Len(dir[n].content.v.tests[k].operations) :
                 LET op == dir[n].content.v.tests[k].operations[j]
                 IN  /\ op.arguments # None
                     /\ DocGet(op.arguments.v, "name") = BStr(<<"thread", "0">>)

\* The build profile changes nothing but the value of 0 - 1, so the
\* directories that never compute it are explored with the checks on.
Init ==
    /\ paths \in Directories
    /\ overflow_checks \in BOOLEAN
    /\ overflow_checks \/ SubtractsFromZero(paths)
    /\ pc = "read_dir"
    /\ filename = <<>>
    /\ unified = <<>>
    /\ NoLocals

ConvertLocals ==
    <<old, old_tests, contains_admin_command, contains_fail_point, ents, tests,
      initial_data, test_file, raw_string, rule>>

\* main: an entry whose extension is not "yml" is skipped.
SkipEntry ==
    /\ pc = "read_dir"
    /\ paths # <<>>
    /\ Head(paths).ext # None
    /\ Head(paths).ext.v # "yml"
    /\ paths' = Tail(paths)
    /\ UNCHANGED <<pc, overflow_checks, filename, unified, ConvertLocals>>

\* main: path.extension().unwrap() on an entry without an extension.
ExtensionPanic ==
    /\ pc = "read_dir"
    /\ paths # <<>>
    /\ Head(paths).ext = None
    /\ pc' = "panicked"
    /\ paths' = Tail(paths)
    /\ UNCHANGED <<overflow_checks, filename, unified, ConvertLocals>>

\* A variant of OpenAndParse that creates the output file before it parses
\* and converts the input.
OpenAndParse_creating_output ==
    /\ pc = "read_dir"
    /\ paths # <<>>
    /\ Head(paths).ext # None
    /\ Head(paths).ext.v = "yml"
    /\ paths' = Tail(paths)
    /\ filename' = Head(paths).stem
    /\ unified' = Append(unified, [name |-> Head(paths).stem, content |-> <<>>])
    /\ IF Head(paths).content = ParseError
       THEN /\ pc' = "failed"
            /\ UNCHANGED ConvertLocals
       ELSE /\ pc' = "prescan"
            /\ old' = Head(paths).content.v
            /\ old_tests' = Head(paths).content.v.tests
            /\ contains_admin_command' = FALSE
            /\ contains_fail_point' = FALSE
            /\ ents' = <<>>
            /\ tests' = <<>>
            /\ initial_data' = <<>>
            /\ test_file' = None
            /\ raw_string' = <<>>
            /\ rule' = 0
    /\ UNCHANGED overflow_checks

\* main: File::open and serde_yaml::from_reader; an error is returned by ?.
OpenAndParse ==
    /\ pc = "read_dir"
    /\ paths # <<>>
    /\ Head(paths).ext # None
    /\ Head(paths).ext.v = "yml"
    /\ paths' = Tail(paths)
    /\ filename' = Head(paths).stem
    /\ IF Head(paths).content = ParseError
       THEN /\ pc' = "failed"
            /\ UNCHANGED ConvertLocals
       ELSE /\ pc' = "prescan"
            /\ old' = Head(paths).content.v
            /\ old_tests' = Head(paths).content.v.tests
            /\ contains_admin_command' = FALSE
            /\ contains_fail_point' = FALSE
            /\ ents' = <<>>
            /\ tests' = <<>>
            /\ initial_data' = <<>>
            /\ test_file' = None
            /\ raw_string' = <<>>
            /\ rule' = 0
    /\ UNCHANGED <<overflow_checks, unified>>

\* convert: the two scans over the operation list of every test case.
HasOperation(old_test, name) ==
    \E n \in 1..Len(old_test.operations) : old_test.operations[n].name = name

PreScan ==
    /\ pc = "prescan"
    /\ contains_admin_command' =
          \E n \in 1..Len(old.tests) : HasOperation(old.tests[n], "runAdminCommand")
    /\ contains_fail_point' =
          \E n \in 1..Len(old.tests) :
              \/ old.tests[n].fail_point # None
              \/ HasOperation(old.tests[n], "configureFailPoint")
    /\ pc' = "tests"
    /\ UNCHANGED <<paths, overflow_checks, filename, old, old_tests, ents, tests,
                   initial_data, test_file, raw_string, rule, unified>>

\* convert: one iteration of the loop over old.tests.
ConvertTest ==
    /\ pc = "tests"
    /\ old_tests # <<>>
    /\ LET new_test == Test_from_crud_v2(Head(old_tests), Len(tests), overflow_checks)
       IN  IF new_test = Panic
           THEN /\ pc' = "panicked"
                /\ UNCHANGED <<old_tests, tests>>
           ELSE /\ tests' = Append(tests, new_test)
                /\ old_tests' = Tail(old_tests)
                /\ pc' = pc
    /\ UNCHANGED <<paths, overflow_checks, filename, old, contains_admin_command,
                   contains_fail_point, ents, initial_data, test_file, raw_string,
                   rule, unified>>

\* A variant of the match on old.data that takes the mapping shape too.
BuildInitialData_accepting_many ==
    /\ pc = "tests"
    /\ old_tests = <<>>
    /\ initial_data' =
          <<InitialData(COLLECTION_NAME_DEFINITION_PLACEHOLDER,
                        DATABASE_NAME_DEFINITION_PLACEHOLDER,
                        IF old.data.t = "Single" THEN BArr(old.data.v)
                        ELSE BArr(<<>>))>>
    /\ pc' = "setup"
    /\ UNCHANGED <<paths, overflow_checks, filename, old, old_tests,
                   contains_admin_command, contains_fail_point, ents, tests,
                   test_file, raw_string, rule, unified>>

\* convert: the match on old.data.
BuildInitialData ==
    /\ pc = "tests"
    /\ old_tests = <<>>
    /\ IF old.data.t = "Single"
       THEN /\ initial_data' =
                  <<InitialData(COLLECTION_NAME_DEFINITION_PLACEHOLDER,
                                DATABASE_NAME_DEFINITION_PLACEHOLDER,
                                BArr(old.data.v))>>
            /\ pc' = "setup"
       ELSE /\ pc' = "panicked"
            /\ UNCHANGED initial_data
    /\ UNCHANGED <<paths, overflow_checks, filename, old, old_tests,
                   contains_admin_command, contains_fail_point, ents, tests,
                   test_file, raw_string, rule, unified>>

\* convert: the setup client and the admin database.
setup_entities(fail_point, admin_command) ==
    IF fail_point \/ admin_command
    THEN <<ClientEntity(SETUP_CLIENT_DEFINITION_PLACEHOLDER, None, None)>>
         \o (IF admin_command
             THEN <<DatabaseEntity(ADMIN_DATABASE_DEFINITION_PLACEHOLDER,
                                   SETUP_CLIENT_DEREF_PLACEHOLDER, <<"admin">>)>>
             ELSE <<>>)
    ELSE <<>>

BuildSetupEntities ==
    /\ pc = "setup"
    /\ ents' = ents \o setup_entities(contains_fail_point, contains_admin_command)
    /\ pc' = "serialize"
    /\ UNCHANGED <<paths, overflow_checks, filename, old, old_tests,
                   contains_admin_command, contains_fail_point, tests,
                   initial_data, test_file, raw_string, rule, unified>>

\* convert: the unified::TestFile and its YAML text.
Serialize ==
    /\ pc = "serialize"
    /\ test_file' = TestFile(filename, ents, initial_data, tests)
    /\ raw_string' = to_string(test_file')
    /\ rule' = 1
    /\ pc' = "resolve"
    /\ UNCHANGED <<paths, overflow_checks, filename, old, old_tests,
                   contains_admin_command, contains_fail_point, ents, tests,
                   initial_data, unified>>

\* convert: one iteration of the loop over REGEX_PLACEHOLDER_REPLACEMENTS.
apply_rule(text, n) ==
    replace_all(text, REGEX_PLACEHOLDER_REPLACEMENTS[n].pat,
                REGEX_PLACEHOLDER_REPLACEMENTS[n].rep)

ApplyRule ==
    /\ pc = "resolve"
    /\ rule <= Len(REGEX_PLACEHOLDER_REPLACEMENTS)
    /\ raw_string' = apply_rule(raw_string, rule)
    /\ rule' = rule + 1
    /\ UNCHANGED <<paths, pc, overflow_checks, filename, old, old_tests,
                   contains_admin_command, contains_fail_point, ents, tests,
                   initial_data, test_file, unified>>

\* convert: the last rule, which carries the suite's collection name; then
\* convert returns Ok(raw_string).
\* A variant of the last rule, written with the leading "x" that the other
\* tokens carry and this one does not.
collection_name_rule_with_x(text, collection_name) ==
    replace_all(text, <<"x">> \o COLLECTION_NAME_DEFINITION_PLACEHOLDER,
                <<"&", "collectionName", " ", collection_name>>)

collection_name_rule(text, collection_name) ==
    replace_all(text, COLLECTION_NAME_DEFINITION_PLACEHOLDER,
                <<"&", "collectionName", " ", collection_name>>)

ApplyCollectionNameRule ==
    /\ pc = "resolve"
    /\ rule > Len(REGEX_PLACEHOLDER_REPLACEMENTS)
    /\ raw_string' = collection_name_rule(raw_string, old.collection_name)
    /\ pc' = "create"
    /\ UNCHANGED <<paths, overflow_checks, filename, old, old_tests,
                   contains_admin_command, contains_fail_point, ents, tests,
                   initial_data, test_file, rule, unified>>

\* convert: the whole resolver pass over a text: the loop over the table,
\* then the last rule.
RECURSIVE apply_rules(_, _)
apply_rules(text, n) ==
    IF n > Len(REGEX_PLACEHOLDER_REPLACEMENTS) THEN text
    ELSE apply_rules(apply_rule(text, n), n + 1)

resolver_pass(text, collection_name) ==
    collection_name_rule(apply_rules(text, 1), collection_name)

\* main: File::create(out) makes (or truncates) the output file.
CreateOutput ==
    /\ pc = "create"
    /\ unified' = Append(unified, [name |-> filename, content |-> <<>>])
    /\ pc' = "write"
    /\ UNCHANGED <<paths, overflow_checks, filename, ConvertLocals>>

\* main: write_all(new.as_bytes()), and the next iteration.
WriteAll ==
    /\ pc = "write"
    /\ unified' = [unified EXCEPT ![Len(unified)].content = raw_string]
    /\ pc' = "read_dir"
    /\ UNCHANGED <<paths, overflow_checks, filename, ConvertLocals>>

\* main: the directory is exhausted and main returns Ok(()).
MainReturn ==
    /\ pc = "read_dir"
    /\ paths = <<>>
    /\ pc' = "returned"
    /\ UNCHANGED <<paths, overflow_checks, filename, unified, ConvertLocals>>

Next ==
    \/ SkipEntry
    \/ ExtensionPanic
    \/ OpenAndParse
    \/ PreScan
    \/ ConvertTest
    \/ BuildInitialData
    \/ BuildSetupEntities
    \/ Serialize
    \/ ApplyRule
    \/ ApplyCollectionNameRule
    \/ CreateOutput
    \/ WriteAll
    \/ MainReturn

Spec == Init /\ [][Next]_vars

\* ------------------------------------------------------------ the claims
\* convert has returned Ok(raw_string) for the suite old and main has not
\* yet touched the output directory for it.
Returned == pc = "create"

\* The text convert serialized before it resolved it.
Serialized == to_string(test_file)

\* Every legacy operation of a test case, the ones nested under runOnThread
\* included (to any depth).
RECURSIVE WithNested(_)
WithNested(op) ==
    <<op>> \o
    (IF /\ op.name = "runOnThread"
        /\ op.arguments # None
        /\ DocGet(op.arguments.v, "operation") # None
        /\ operation_from_bson(DocGet(op.arguments.v, "operation")) # Panic
     THEN WithNested(operation_from_bson(DocGet(op.arguments.v, "operation")))
     ELSE <<>>)

AllOperations(old_test) ==
    Concat([n \in 1..Len(old_test.operations) |-> WithNested(old_test.operations[n])])

SuiteOperations(suite) ==
    Concat([n \in 1..Len(suite.tests) |-> AllOperations(suite.tests[n])])

CountWhere(ops, P(_)) == Cardinality({n \in 1..Len(ops) : P(ops[n])})

\* The reference kinds: the definition and dereference tokens of a kind (and
\* scope id), the name YAML binds and the value its anchor carries.
Kind(name, def, deref, value) ==
    [name |-> name, def |-> def, deref |-> deref, value |-> value]

ThreadScopes == 0..(MaxThread - 1) \cup {9, USIZE_MAX}

ThreadKind(n) ==
    Kind(<<"thread">> \o ToDigits(n), thread_definition_placeholder(n),
         thread_deref_placeholder(n), <<"thread">> \o ToDigits(n))

KindClient ==
    Kind(<<"client">>, CLIENT_DEFINITION_PLACEHOLDER, CLIENT_DEREF_PLACEHOLDER,
         <<"client">>)
KindDatabase ==
    Kind(<<"database">>, DATABASE_DEFINITION_PLACEHOLDER,
         DATABASE_DEREF_PLACEHOLDER, <<"database">>)
KindDatabaseName ==
    Kind(<<"databaseName">>, DATABASE_NAME_DEFINITION_PLACEHOLDER,
         DATABASE_NAME_DEREF_PLACEHOLDER, <<"sdam-tests">>)
KindCollection ==
    Kind(<<"collection">>, COLLECTION_DEFINITION_PLACEHOLDER,
         COLLECTION_DEREF_PLACEHOLDER, <<"collection">>)
KindCollectionName(collection_name) ==
    Kind(<<"collectionName">>, COLLECTION_NAME_DEFINITION_PLACEHOLDER,
         COLLECTION_NAME_DEREF_PLACEHOLDER, <<collection_name>>)
KindSetupClient ==
    Kind(<<"setupClient">>, SETUP_CLIENT_DEFINITION_PLACEHOLDER,
         SETUP_CLIENT_DEREF_PLACEHOLDER, <<"setupClient">>)
KindAdminDatabase ==
    Kind(<<"adminDatabase">>, ADMIN_DATABASE_DEFINITION_PLACEHOLDER,
         ADMIN_DATABASE_DEREF_PLACEHOLDER, <<"adminDatabase">>)
KindTopologyDescription ==
    Kind(<<"topologyDescription">>, TOPOLOGY_DESCRIPTION_DEFINITION_PLACEHOLDER,
         TOPOLOGY_DESCRIPTION_DEREF_PLACEHOLDER, <<"topologyDescription">>)

Kinds(collection_name) ==
    { KindClient, KindDatabase, KindDatabaseName, KindCollection,
      KindCollectionName(collection_name), KindSetupClient, KindAdminDatabase,
      KindTopologyDescription }
    \cup {ThreadKind(n) : n \in ThreadScopes}

\* A token, an anchor and an alias each end the line they stand on.
Definitions(text, k) == Occurrences(text, k.def \o <<"\n">>)
Dereferences(text, k) == Occurrences(text, k.deref \o <<"\n">>)
Anchors(text, k) ==
    Occurrences(text, <<"&">> \o k.name \o <<" ">> \o k.value \o <<"\n">>)
Aliases(text, k) == Occurrences(text, <<"*">> \o k.name \o <<"\n">>)

\* Every token ends with the atom "_PLACEHOLDER" and nothing else holds it.
HasReferenceToken(text) == \E p \in 1..Len(text) : text[p] = "_PLACEHOLDER"

\* C1: whenever convert returns text, the text holds no Reference Token:
\* every token the engine emitted has been rewritten by the resolver.
C1_NoResidualToken == Returned => ~HasReferenceToken(raw_string)

\* C1 witness: convert returned for a suite whose serialized text held
\* thread, setup-client, admin-database and collection-name tokens.
C1_Witness ==
    /\ Returned
    /\ \E n \in ThreadScopes :
          /\ Definitions(Serialized, ThreadKind(n)) > 0
          /\ Dereferences(Serialized, ThreadKind(n)) > 0
    /\ Definitions(Serialized, KindSetupClient) > 0
    /\ Dereferences(Serialized, KindAdminDatabase) > 0
    /\ Definitions(Serialized, KindCollectionName(old.collection_name)) > 0
    /\ ~HasReferenceToken(raw_string)

\* The scope id a thread operation names (PanicNumber when it names none).
ThreadOf(op) ==
    IF op.arguments = None \/ DocGetStr(op.arguments.v, "name") = None
    THEN PanicNumber
    ELSE thread_number(DocGetStr(op.arguments.v, "name").v, overflow_checks)

\* How many definitions of a kind the engine emits for the suite old: one
\* client / database / collection per test case, one database name and one
\* collection name per file, the setup client and the admin database as
\* the pre-scan found, one topology description per recordPrimary and one
\* thread of scope n per startThread that names it.
DeclarationsOf(k) ==
    LET ops == SuiteOperations(old)
    IN  CASE k \in {KindClient, KindDatabase, KindCollection} -> Len(old.tests)
          [] k \in {KindDatabaseName, KindCollectionName(old.collection_name)} -> 1
          [] k = KindSetupClient ->
               IF contains_fail_point \/ contains_admin_command THEN 1 ELSE 0
          [] k = KindAdminDatabase -> IF contains_admin_command THEN 1 ELSE 0
          [] k = KindTopologyDescription ->
               CountWhere(ops, LAMBDA op : op.name = "recordPrimary")
          [] OTHER ->
               CountWhere(ops, LAMBDA op :
                   /\ op.name = "startThread"
                   /\ \E n \in ThreadScopes : ThreadOf(op) = n /\ k = ThreadKind(n))

C3_SecondPassIsNoOp ==
    Returned => resolver_pass(raw_string, old.collection_name) = raw_string

\* C3 amended: the resolver pass applied to the text convert returned
\* changes nothing but the initialData key, after which it writes one more
\* "&initialData"; every declaration and alias it produced stays as it is.
C3_SecondPassTouchesInitialDataOnly ==
    Returned =>
        resolver_pass(raw_string, old.collection_name) =
            replace_all(raw_string, <<"initialData", ":">>,
                        <<"initialData", ":", " ", "&", "initialData">>)

\* C3 witness: convert returned a text with declarations, aliases and the
\* initialData key, and the second pass adds a second "&initialData".
C3_Witness ==
    /\ Returned
    /\ Anchors(raw_string, KindClient) >= 1
    /\ Aliases(raw_string, KindSetupClient) >= 1
    /\ \E n \in ThreadScopes : Aliases(raw_string, ThreadKind(n)) >= 1
    /\ Occurrences(raw_string, <<"initialData", ":", " ", "&", "initialData">>) = 1
    /\ Occurrences(resolver_pass(raw_string, old.collection_name),
                   <<"&", "initialData", " ", "&", "initialData">>) = 1

\* A suite without fail-point or admin-command usage: no test case has a
\* fail_point and no operation, nested ones included, is configureFailPoint
\* or runAdminCommand.
NoSetupUsage(suite) ==
    /\ \A n \in 1..Len(suite.tests) : suite.tests[n].fail_point = None
    /\ CountWhere(SuiteOperations(suite), LAMBDA op :
           op.name \in {"configureFailPoint", "runAdminCommand"}) = 0

\* The entity documents of a createEntities operation, the variant tag of an
\* entity document and a field of its body.
EntitiesOf(op) == DocGet(op.arguments.v, "entities").v
EntityTag(doc) == doc.v[1][1]
EntityField(doc, key) == DocGet(doc.v[1][2].v, key)

\* The tags of the entities that the n-th converted test case declares in
\* its first operation.
TripleTags(n) ==
    LET first == test_file.tests[n].operations[1]
    IN  IF first.name = "createEntities" /\ first.object = <<"testRunner">>
        THEN [j \in 1..Len(EntitiesOf(first)) |-> EntityTag(EntitiesOf(first)[j])]
        ELSE <<>>

TripleEntity(n, j) == EntitiesOf(test_file.tests[n].operations[1])[j]

UsesFailPoint(suite) ==
    \/ \E n \in 1..Len(suite.tests) : suite.tests[n].fail_point # None
    \/ CountWhere(SuiteOperations(suite),
                  LAMBDA op : op.name = "configureFailPoint") > 0
UsesAdminCommand(suite) ==
    CountWhere(SuiteOperations(suite), LAMBDA op : op.name = "runAdminCommand") > 0

\* C5: a converted suite has exactly one setup client if a test case uses a
\* fail point or an admin command and none otherwise, and an admin database,
\* bound to the setup client, if and only if an admin command is used.
C5_SetupClientIffUsed ==
    Returned =>
        /\ Len(test_file.create_entities) =
              (IF UsesFailPoint(old) \/ UsesAdminCommand(old) THEN 1 ELSE 0)
              + (IF UsesAdminCommand(old) THEN 1 ELSE 0)
        /\ (UsesFailPoint(old) \/ UsesAdminCommand(old)) =>
              /\ test_file.create_entities[1].kind = "client"
              /\ test_file.create_entities[1].id = SETUP_CLIENT_DEFINITION_PLACEHOLDER
        /\ UsesAdminCommand(old) =>
              /\ test_file.create_entities[2].kind = "database"
              /\ test_file.create_entities[2].id = ADMIN_DATABASE_DEFINITION_PLACEHOLDER
              /\ test_file.create_entities[2].client = SETUP_CLIENT_DEREF_PLACEHOLDER

\* The translation of the j-th legacy operation of the n-th test case, as
\* it stands in the converted test: the legacy operations are the last ones.
TranslatedOp(n, j) ==
    LET ops == test_file.tests[n].operations
    IN  ops[Len(ops) - Len(old.tests[n].operations) + j]

IsEventOp(op) == op.name \in {"waitForEvent", "assertEventCount"}

\* The canonical event documents, written out.
CanonicalEvent(event_name) ==
    CASE event_name = "PoolClearedEvent" ->
           BDoc(<< <<"poolClearedEvent", BDoc(<<>>)>> >>)
      [] event_name = "PoolReadyEvent" ->
           BDoc(<< <<"poolReadyEvent", BDoc(<<>>)>> >>)
      [] event_name = "ServerMarkedUnknownEvent" ->
           BDoc(<< <<"serverDescriptionChangedEvent",
                     BDoc(<< <<"newDescription",
                               BDoc(<< <<"type", BStr(<<"Unknown">>)>> >>)>> >>)>> >>)

\* C6 as stated: a waitForEvent / assertEventCount operation keeps its name,
\* gets the client reference as its object, and its arguments hold the
\* canonical event document and the legacy count.
C6_ObjectIsClient ==
    Returned =>
        \A n \in 1..Len(old.tests) : \A j \in 1..Len(old.tests[n].operations) :
            LET old_op == old.tests[n].operations[j]
                new_op == TranslatedOp(n, j)
            IN  IsEventOp(old_op) =>
                  /\ new_op.name = old_op.name
                  /\ new_op.object = CLIENT_DEREF_PLACEHOLDER
                  /\ DocGet(new_op.arguments.v, "event")
                        = CanonicalEvent(DocGetStr(old_op.arguments.v, "event").v[1])
                  /\ DocGet(new_op.arguments.v, "count")
                        = DocGet(old_op.arguments.v, "count")

\* C6 amended: a waitForEvent / assertEventCount operation keeps its name
\* and its legacy object (the collection reference when that object is
\* "collection"); the client reference stands in its arguments, which are
\* exactly client, the canonical event document and the legacy count
\* unchanged.
C6_ClientInArguments ==
    Returned =>
        \A n \in 1..Len(old.tests) : \A j \in 1..Len(old.tests[n].operations) :
            LET old_op == old.tests[n].operations[j]
                new_op == TranslatedOp(n, j)
            IN  IsEventOp(old_op) =>
                  /\ new_op.name = old_op.name
                  /\ new_op.object =
                        (IF old_op.object = "collection"
                         THEN COLLECTION_DEREF_PLACEHOLDER ELSE <<old_op.object>>)
                  /\ new_op.arguments =
                        BDoc(<< <<"client", BStr(CLIENT_DEREF_PLACEHOLDER)>>,
                                <<"event",
                                  CanonicalEvent(
                                      DocGetStr(old_op.arguments.v, "event").v[1])>>,
                                <<"count", DocGet(old_op.arguments.v, "count")>> >>)

\* C6 witness: a converted waitForEvent on PoolClearedEvent with count 1,
\* whose object is still the test runner.
C6_Witness ==
    /\ Returned
    /\ \E n \in 1..Len(old.tests) : \E j \in 1..Len(old.tests[n].operations) :
          /\ old.tests[n].operations[j] = OpEvent("waitForEvent", "PoolClearedEvent")
          /\ TranslatedOp(n, j).name = "waitForEvent"
          /\ TranslatedOp(n, j).object = <<"testRunner">>
          /\ DocGet(TranslatedOp(n, j).arguments.v, "count") = BInt(1)

\* C7: for a suite whose fixture data is the mapping shape, convert is before
\* or in the loop over the tests or it has panicked: it builds no text and
\* main writes no file for it.
C7_ManyDataNeverReturns ==
    (old # None /\ old.data.t = "Many") =>
        /\ pc \in {"prescan", "tests", "panicked"}
        /\ raw_string = <<>>
        /\ test_file = None
        /\ \A n \in 1..Len(unified) : unified[n].name # filename

\* C7 witness: convert translated every test case of a suite with mapping
\* data and then panicked on the data.
C7_Witness ==
    /\ pc = "panicked"
    /\ old # None
    /\ old.data.t = "Many"
    /\ old.tests # <<>>
    /\ Len(tests) = Len(old.tests)

\* The thread names "thread<k>" with k >= 1 that the suites use.
ThreadNumbers == 1..MaxThread \cup {10}

NamesThread(op, k) ==
    /\ op.arguments # None
    /\ DocGet(op.arguments.v, "name") = BStr(<<"thread">> \o ToDigits(k))

\* C8: a startThread naming "thread<k>", k >= 1, becomes a createEntities
\* operation on testRunner whose only argument is a list of exactly one
\* Thread entity of scope id k - 1; runOnThread and waitForThread naming
\* the same thread refer to scope id k - 1; and the resolved text declares
\* thread<k-1> once per such startThread and uses the same name once per
\* such runOnThread / waitForThread.
C8_ThreadScopeIsNameMinusOne ==
    Returned =>
        \A k \in ThreadNumbers :
            /\ \A n \in 1..Len(old.tests) : \A j \in 1..Len(old.tests[n].operations) :
                  LET old_op == old.tests[n].operations[j]
                      new_op == TranslatedOp(n, j)
                  IN  NamesThread(old_op, k) =>
                        /\ old_op.name = "startThread" =>
                              /\ new_op.name = "createEntities"
                              /\ new_op.object = <<"testRunner">>
                              /\ new_op.arguments =
                                    BDoc(<< <<"entities", BArr(<<
                                        BDoc(<< <<"thread", BDoc(<<
                                            <<"id", BStr(thread_definition_placeholder(k - 1))>>
                                        >>)>> >>) >>)>> >>)
                        /\ old_op.name \in {"runOnThread", "waitForThread"} =>
                              /\ new_op.name = old_op.name
                              /\ DocGet(new_op.arguments.v, "thread")
                                    = BStr(thread_deref_placeholder(k - 1))
            /\ Anchors(raw_string, ThreadKind(k - 1)) =
                  CountWhere(SuiteOperations(old), LAMBDA op :
                      op.name = "startThread" /\ NamesThread(op, k))
            /\ Aliases(raw_string, ThreadKind(k - 1)) =
                  CountWhere(SuiteOperations(old), LAMBDA op :
                      op.name \in {"runOnThread", "waitForThread"} /\ NamesThread(op, k))

\* C8 witness: a converted test case that starts thread10, runs on it and
\* waits for it; the text declares thread9 once and uses it twice.
C8_Witness ==
    /\ Returned
    /\ \E n \in 1..Len(old.tests) :
          /\ Len(old.tests[n].operations) = 3
          /\ old.tests[n].operations[1] = OpStartThread(ThreadName(10))
          /\ TranslatedOp(n, 1).name = "createEntities"
          /\ old.tests[n].operations[3] = OpWaitForThread(ThreadName(10))
    /\ Len(old.tests) = 1
    /\ Anchors(raw_string, ThreadKind(9)) = 1
    /\ Aliases(raw_string, ThreadKind(9)) = 2
    /\ Anchors(raw_string, ThreadKind(1)) = 1

\* C9: a test case with a fail point and expectations converts to: first a
\* failPoint operation on testRunner bound to the setup client and carrying
\* the fail point, then (after the createEntities operation) the
\* translations of the legacy operations in their order, and exactly one
\* expect-events block of type "command", bound to the client reference,
\* with one entry per legacy expectation.
C9_FailPointThenOperationsThenEvents ==
    Returned =>
        \A n \in 1..Len(old.tests) :
            LET old_test == old.tests[n]
                new_test == test_file.tests[n]
            IN  (old_test.fail_point # None /\ old_test.expectations # None) =>
                  /\ Len(new_test.operations) = Len(old_test.operations) + 2
                  /\ new_test.operations[1].name = "failPoint"
                  /\ new_test.operations[1].object = <<"testRunner">>
                  /\ new_test.operations[1].arguments =
                        BDoc(<< <<"client", BStr(SETUP_CLIENT_DEREF_PLACEHOLDER)>>,
                                <<"failPoint", old_test.fail_point>> >>)
                  /\ new_test.operations[2].name = "createEntities"
                  /\ \A j \in 1..Len(old_test.operations) :
                        new_test.operations[2 + j] =
                            Operation_from_crud_v2(old_test.operations[j], n - 1,
                                                   overflow_checks)
                  /\ new_test.expect_events # None
                  /\ Len(new_test.expect_events) = 1
                  /\ new_test.expect_events[1].event_type = "command"
                  /\ new_test.expect_events[1].client = CLIENT_DEREF_PLACEHOLDER
                  /\ Len(new_test.expect_events[1].events)
                        = Len(old_test.expectations.v)
                  /\ \A e \in 1..Len(old_test.expectations.v) :
                        new_test.expect_events[1].events[e].command
                            = old_test.expectations.v[e].command

\* C9 witness: a converted test case with a fail point, two legacy
\* operations and at least one expectation.
C9_Witness ==
    /\ Returned
    /\ \E n \in 1..Len(old.tests) :
          /\ old.tests[n].fail_point # None
          /\ old.tests[n].expectations # None
          /\ Len(old.tests[n].expectations.v) >= 1
          /\ Len(old.tests[n].operations) = 2
          /\ test_file.tests[n].operations[1].name = "failPoint"
          /\ test_file.tests[n].operations[3].name = "find"
          /\ test_file.tests[n].operations[4].name = "waitForEvent"

\* C10 as stated: every kind with a definition token in the serialized
\* document has a dereference token of the same kind and scope in it.
C10_EveryDefinitionIsDereferenced ==
    Returned =>
        \A k \in Kinds(old.collection_name) :
            Definitions(Serialized, k) > 0 => Dereferences(Serialized, k) > 0

\* C10 amended: a client, database, setup-client or admin-database
\* definition token always has a dereference token of its kind in the same
\* document, and so have the database-name and collection-name definitions
\* of a suite with at least one test case; a collection, thread or
\* topology-description definition has one only when an operation uses it:
\* one that targets the "collection" object, a runOnThread / waitForThread
\* naming that thread, a waitForPrimaryChange.
C10_DereferencedWhenUsed ==
    Returned =>
        /\ \A k \in {KindClient, KindDatabase, KindSetupClient, KindAdminDatabase} :
               Definitions(Serialized, k) > 0 => Dereferences(Serialized, k) > 0
        /\ old.tests # <<>> =>
               \A k \in {KindDatabaseName, KindCollectionName(old.collection_name)} :
                   Definitions(Serialized, k) > 0 /\ Dereferences(Serialized, k) > 0
        /\ Dereferences(Serialized, KindCollection) > 0 =>
               CountWhere(SuiteOperations(old),
                          LAMBDA op : op.object = "collection") > 0
        /\ Dereferences(Serialized, KindTopologyDescription) > 0 =>
               CountWhere(SuiteOperations(old),
                          LAMBDA op : op.name = "waitForPrimaryChange") > 0
        /\ \A n \in ThreadScopes :
               Dereferences(Serialized, ThreadKind(n)) > 0 =>
                   CountWhere(SuiteOperations(old), LAMBDA op :
                       /\ op.name \in {"runOnThread", "waitForThread"}
                       /\ ThreadOf(op) = n) > 0

\* C10 witness: a converted suite that starts a thread and never uses it
\* and has no operation on the "collection" object: the thread and the
\* collection are defined and not dereferenced, the client is both.
C10_Witness ==
    /\ Returned
    /\ Definitions(Serialized, KindCollection) > 0
    /\ Dereferences(Serialized, KindCollection) = 0
    /\ \E n \in ThreadScopes :
          /\ Definitions(Serialized, ThreadKind(n)) > 0
          /\ Dereferences(Serialized, ThreadKind(n)) = 0
    /\ Definitions(Serialized, KindClient) > 0
    /\ Dereferences(Serialized, KindClient) > 0

\* The semantic errors of a legacy operation: an event operation whose
\* event name is outside the fixed table, a thread-lifecycle operation whose
\* thread name is not "thread" followed by an integer >= 1.
HasUnknownEvent(op) ==
    /\ IsEventOp(op)
    /\ op.arguments # None
    /\ DocGetStr(op.arguments.v, "event") # None
    /\ DocGetStr(op.arguments.v, "event").v[1] \notin EventNames

IsThreadOp(op) == op.name \in {"startThread", "runOnThread", "waitForThread"}

HasBadThreadName(op) ==
    /\ IsThreadOp(op)
    /\ op.arguments # None
    /\ DocGetStr(op.arguments.v, "name") # None
    /\ LET v2_name == DocGetStr(op.arguments.v, "name").v
       IN  \/ v2_name = <<>>
           \/ Head(v2_name) # "thread"
           \/ parse_usize(Tail(v2_name)) < 1

HasSemanticError(suite) ==
    CountWhere(SuiteOperations(suite),
               LAMBDA op : HasUnknownEvent(op) \/ HasBadThreadName(op)) > 0

\* C11: while convert works on a suite with a semantic error (an event name
\* outside the table, at top level or nested, or a thread name that is not
\* "thread" and a 1-based integer, suffix 0 included), it is before or in
\* the loop over the tests or it has panicked, and it has built no text.
C11_SemanticErrorsAreFatal ==
    (old # None /\ HasSemanticError(old)) =>
        /\ pc \in {"prescan", "tests", "panicked"}
        /\ raw_string = <<>>

\* The batch has aborted: from_reader or convert returned an error, or a
\* panic unwound main.
Aborted == pc \in {"failed", "panicked"}

\* This step is the failure of parsing or conversion of the file filename'
\* (and not the panic on an entry without an extension).
ConversionFails ==
    /\ ~Aborted
    /\ Aborted'
    /\ ~(pc = "read_dir" /\ Head(paths).ext = None)

\* C12: in every step of the batch, an output file appears only when convert
\* has returned text for that input, and it gets exactly that text, fully
\* resolved; no file exists for an input whose parsing or conversion fails;
\* and after a failure nothing changes any more: no later file is read or
\* written.
C12_OutputOnlyAfterConversion ==
    [][ /\ Len(unified') > Len(unified) =>
              /\ Returned
              /\ unified' = Append(unified, [name |-> filename, content |-> <<>>])
        /\ (unified' # unified /\ Len(unified') = Len(unified)) =>
              /\ pc = "write"
              /\ unified' = [unified EXCEPT ![Len(unified)].content = raw_string]
              /\ unified[Len(unified)].name = filename
              /\ rule > Len(REGEX_PLACEHOLDER_REPLACEMENTS)
              /\ ~HasReferenceToken(raw_string)
        /\ ConversionFails =>
              /\ unified' = unified
              /\ \A n \in 1..Len(unified) : unified[n].name # filename'
        /\ Aborted => (unified' = unified /\ paths' = paths /\ pc' = pc)
      ]_vars

\* C12 witness: the first file was converted and written, the second one
\* failed to parse, and an entry after it is left unvisited.
C12_Witness ==
    /\ pc = "failed"
    /\ Len(unified) = 1
    /\ unified[1].content # <<>>
    /\ unified[1].name # filename
    /\ paths # <<>>

\* The pattern of the rule convert applies next while it resolves: a table
\* rule, or the last rule after the table.
CurrentPattern ==
    IF rule <= Len(REGEX_PLACEHOLDER_REPLACEMENTS)
    THEN REGEX_PLACEHOLDER_REPLACEMENTS[rule].pat
    ELSE COLLECTION_NAME_DEFINITION_PLACEHOLDER

\* A match of pat at p covers a whole scalar of the text: it starts after
\* the blank that follows a key or a "-" and it ends at the end of the line.
IsWholeScalar(text, pat, p) ==
    /\ p > 1
    /\ text[p - 1] = " "
    /\ MatchAt(text, pat, p).end <= Len(text)
    /\ text[MatchAt(text, pat, p).end] = "\n"

\* C13: the rules run in table order, one per step from the first to the
\* last rule after the table, and convert returns only after the last one;
\* at every step each match of the token pattern applied next is a whole
\* token (a whole scalar of the text), never a part of a longer token, and
\* what matches it whole is a token of that rule's kind and role.
C13_RulesMatchWholeTokens ==
    /\ pc = "resolve" =>
          /\ rule \in 1..(Len(REGEX_PLACEHOLDER_REPLACEMENTS) + 1)
          /\ CurrentPattern # <<"initialData", ":">> =>
                \A p \in MatchStarts(raw_string, CurrentPattern) :
                    /\ IsWholeScalar(raw_string, CurrentPattern, p)
                    /\ \E k \in Kinds(old.collection_name) :
                          SubSeq(raw_string, p,
                                 MatchAt(raw_string, CurrentPattern, p).end - 1)
                              \in {k.def, k.deref}
    /\ Returned =>
          /\ rule = Len(REGEX_PLACEHOLDER_REPLACEMENTS) + 1
          /\ Anchors(raw_string, KindSetupClient)
                = Definitions(Serialized, KindSetupClient)
          /\ Anchors(raw_string, KindClient) = Definitions(Serialized, KindClient)

\* C13 witness: the client definition rule is about to run over a text
\* that holds client, setup-client, collection and collection-name tokens
\* and a thread token.
C13_Witness ==
    /\ pc = "resolve"
    /\ rule = 1
    /\ MatchStarts(raw_string, CurrentPattern) # {}
    /\ Definitions(raw_string, KindSetupClient) > 0
    /\ Dereferences(raw_string, KindCollection) > 0
    /\ Definitions(raw_string, KindCollectionName(old.collection_name)) > 0
    /\ \E n \in ThreadScopes : Definitions(raw_string, ThreadKind(n)) > 0

\* C14: in every converted document, a name that is used by an alias is
\* declared by an anchor of the same name in that document.
C14_EveryAliasHasAnAnchor ==
    Returned =>
        \A k \in Kinds(old.collection_name) :
            Aliases(raw_string, k) > 0 => Anchors(raw_string, k) > 0

\* The client entity of the n-th converted test case: the first entity of
\* its createEntities operation, which follows the failPoint operation when
\* the legacy test has a fail point.
ClientEntityOf(n) ==
    LET at == IF old.tests[n].fail_point # None THEN 2 ELSE 1
    IN  EntitiesOf(test_file.tests[n].operations[at])[1]

ObservedKinds(n) ==
    LET observed == EntityField(ClientEntityOf(n), "observeEvents")
    IN  IF observed = None THEN {}
        ELSE {observed.v[j].v[1] : j \in 1..Len(observed.v)}

\* The canonical event kinds, written out.
CanonicalKind(event_name) ==
    CASE event_name = "PoolClearedEvent" -> "poolClearedEvent"
      [] event_name = "PoolReadyEvent" -> "poolReadyEvent"
      [] event_name = "ServerMarkedUnknownEvent" -> "serverDescriptionChangedEvent"

\* The kinds of the events that the operations of a test case wait for or
\* count, operations nested under runOnThread included.
AwaitedKinds(old_test) ==
    LET ops == AllOperations(old_test)
    IN  {CanonicalKind(DocGetStr(ops[j].arguments.v, "event").v[1]) :
            j \in {i \in 1..Len(ops) : IsEventOp(ops[i])}}

\* C15: the client entity of every converted test case observes the kind of
\* every event that an operation of the test waits for or counts, nested
\* operations included, and the command-started kind exactly when the test
\* has an expected-event sequence.
C15_ClientObservesAwaitedEvents ==
    Returned =>
        \A n \in 1..Len(old.tests) :
            /\ EntityTag(ClientEntityOf(n)) = "client"
            /\ AwaitedKinds(old.tests[n]) \subseteq ObservedKinds(n)
            /\ ("commandStartedEvent" \in ObservedKinds(n))
                   <=> (old.tests[n].expectations # None)

====
